---- MODULE Spec2Model ----
(***************************************************************************)
(* Model of mellymell: the pitch/note mapper (pitch.py), the YIN estimator *)
(* (pitch.py), the offline note segmenter (segment.py) and the live tuner  *)
(* loop (scripts/live_tuner.py).                                           *)
(*                                                                         *)
(* Number representation.                                                  *)
(*  - A positive frequency f is held in the log domain, as the integer     *)
(*    number of cents between f and the tuning reference a4:               *)
(*    f = a4 * 2^(cents/1200).  Zero, negative and non-finite frequencies  *)
(*    are separate kinds.                                                  *)
(*  - A (fractional) MIDI number m is held as the integer 100*m.           *)
(*  - Times, confidences and thresholds are integers in one common unit.   *)
(*  - A median is held doubled (2*median), a mean as <<sum, count>>.       *)
(*  - A string is a sequence of one-character strings.                     *)
(***************************************************************************)
EXTENDS Integers, Sequences, FiniteSets, TLC

VARIABLES
    \* segment_notes
    times, freqs, confs, min_seg_dur, gap, conf_threshold,
    segments, cur_note, cur_start, cur_cents, cur_confs, last_time, seg_pc,
    \* pitch/note mapper applied as a pure function
    n_in, n_out, n_pc,
    \* live_tuner.main
    q, freq_hist, shown_note, shown_freq, median, hysteresis, conf, display,
    stream, live_pc, produced,
    \* pitch.yin applied as a pure function
    y_x, y_sr, y_fmin, y_fmax, y_res, y_pc

segVars == <<times, freqs, confs, min_seg_dur, gap, conf_threshold,
             segments, cur_note, cur_start, cur_cents, cur_confs, last_time, seg_pc>>
noteVars == <<n_in, n_out, n_pc>>
liveArgs == <<median, hysteresis, conf>>
liveVars == <<q, freq_hist, shown_note, shown_freq, median, hysteresis, conf, display,
              stream, live_pc, produced>>
yinVars == <<y_x, y_sr, y_fmin, y_fmax, y_res, y_pc>>
vars == <<segVars, noteVars, liveVars, yinVars>>

(***************************************************************************)
(* Bounds of the model.                                                    *)
(***************************************************************************)
MaxFrames == 4
MaxOctave == 5
MaxMidiCents == 250
MaxMedian == 3
MaxBlocks == 4
MaxN == 6
MaxQueue == 2

(***************************************************************************)
(* Generic helpers: Python's None, abs, min, max, sorting, sums.           *)
(***************************************************************************)
None == << >>
NoTime == -1

Abs(x) == IF x < 0 THEN -x ELSE x
Min(a, b) == IF a < b THEN a ELSE b
Max(a, b) == IF a > b THEN a ELSE b

RECURSIVE SeqSum(_)
SeqSum(s) == IF s = << >> THEN 0 ELSE Head(s) + SeqSum(Tail(s))

RECURSIVE Insert(_, _)
Insert(x, s) ==
    IF s = << >> THEN <<x>>
    ELSE IF x <= Head(s) THEN <<x>> \o s
    ELSE <<Head(s)>> \o Insert(x, Tail(s))

RECURSIVE Sorted(_)
Sorted(s) == IF s = << >> THEN << >> ELSE Insert(Head(s), Sorted(Tail(s)))

\* np.median of a non-empty list, doubled: the middle element twice, or the
\* sum of the two middle elements.
Median2(s) ==
    LET srt == Sorted(s)
        n == Len(s)
    IN IF n % 2 = 1 THEN 2 * srt[(n + 1) \div 2]
       ELSE srt[n \div 2] + srt[n \div 2 + 1]

\* np.mean of a non-empty list as <<sum, count>>.
Mean(s) == <<SeqSum(s), Len(s)>>

(***************************************************************************)
(* Frequencies.                                                            *)
(***************************************************************************)
Hz(c) == [kind |-> "pos", cents |-> c]
ZeroHz == [kind |-> "zero", cents |-> 0]
NegHz == [kind |-> "neg", cents |-> 0]
NanHz == [kind |-> "nan", cents |-> 0]
InfHz == [kind |-> "inf", cents |-> 0]

\* f > 0
Positive(f) == f.kind \in {"pos", "inf"}
\* np.isfinite(f)
IsFinite(f) == f.kind \in {"pos", "zero", "neg"}

(***************************************************************************)
(* pitch.py: the note mapper.                                              *)
(***************************************************************************)
NOTE_NAMES == << <<"C">>, <<"C", "#">>, <<"D">>, <<"D", "#">>, <<"E">>, <<"F">>,
                 <<"F", "#">>, <<"G">>, <<"G", "#">>, <<"A">>, <<"A", "#">>, <<"B">> >>

\* hz_to_midi: 69 + 12*log2(f/a4), times 100.
hz_to_midi(f) == 6900 + f.cents

\* midi_to_hz: a4 * 2^((m-69)/12), for m given times 100.
midi_to_hz(m100) == Hz(m100 - 6900)

\* Python 3 round() of a float: to the nearest integer, a tie to the even one.
PyRoundFloor(m100) == m100 \div 100

PyRound(m100) ==
    LET whole == m100 \div 100
        frac == m100 % 100
    IN IF frac < 50 THEN whole
       ELSE IF frac > 50 THEN whole + 1
       ELSE IF whole % 2 = 0 THEN whole ELSE whole + 1

OctaveNoOffset(m_rounded) == m_rounded \div 12

OctaveOf(m_rounded) == m_rounded \div 12 - 1

midi_to_note(m100) ==
    LET m_rounded == PyRound(m100)
        note_index == m_rounded % 12
        octave == OctaveOf(m_rounded)
    IN <<NOTE_NAMES[note_index + 1], octave>>

hz_to_note(f) ==
    LET m == hz_to_midi(f)
        no == midi_to_note(m)
        cents == m - PyRound(m) * 100
    IN <<no[1], no[2], cents>>

\* NOTE_NAMES.index(name), 0-based; -1 stands for the ValueError of a name
\* that is not in the table.
NameIndex(name) ==
    IF \E i \in 1..12 : NOTE_NAMES[i] = name
    THEN (CHOOSE i \in 1..12 : NOTE_NAMES[i] = name) - 1
    ELSE -1

note_to_midi(name, octave) == (octave + 1) * 12 + NameIndex(name)

note_to_hz(name, octave) == midi_to_hz(note_to_midi(name, octave) * 100)

(***************************************************************************)
(* String formatting of integers: str(n), format(n, "02d"), int(s).        *)
(***************************************************************************)
DigitChars == <<"0", "1", "2", "3", "4", "5", "6", "7", "8", "9">>

RECURSIVE NatStr(_)
NatStr(n) == IF n < 10 THEN <<DigitChars[n + 1]>>
             ELSE NatStr(n \div 10) \o <<DigitChars[(n % 10) + 1]>>

IntStr(n) == IF n < 0 THEN <<"-">> \o NatStr(-n) ELSE NatStr(n)

\* f"{n:02d}": zero-padded to width 2, the sign counting in the width.
IntStr02d(n) ==
    LET s == IntStr(n)
    IN IF Len(s) >= 2 THEN s
       ELSE <<"0">> \o s

(***************************************************************************)
(* segment.py: segment_notes.                                              *)
(***************************************************************************)
\* line 69: valid = (f > 0) and (c >= conf_threshold)
ValidNoConf(f, c, thr) == Positive(f)

Valid(f, c, thr) == Positive(f) /\ c >= thr

\* line 72: (t - last_time) > gap
GapExceededGeq(t, last, g) == (t - last) >= g

GapExceeded(t, last, g) == (t - last) > g

\* line 52: dur >= min_seg_dur and len(cur_cents) > 0
KeepSegmentNoDur(dur, msd, n) == n > 0

KeepSegment(dur, msd, n) == dur >= msd /\ n > 0

\* line 87: close_segment(last_time if last_time is not None else t)
NoteChangeEndAtT(last, t) == t

NoteChangeEnd(last, t) == IF last # NoTime THEN last ELSE t

\* line 78: note_str = f"{name}{octave}"
NoteStr(f) == LET n == hz_to_note(f) IN n[1] \o IntStr(n[2])

\* The loop state close_segment reads and writes.
SegState == [segments |-> segments, cur_note |-> cur_note, cur_start |-> cur_start,
             cur_cents |-> cur_cents, cur_confs |-> cur_confs]

\* close_segment(end_time), lines 47-66.
close_segment(st, end_time, msd) ==
    IF st.cur_note = None \/ st.cur_start = NoTime THEN st
    ELSE LET dur == end_time - st.cur_start
             out == IF KeepSegment(dur, msd, Len(st.cur_cents))
                    THEN Append(st.segments,
                                [start_s |-> st.cur_start,
                                 end_s |-> end_time,
                                 note |-> st.cur_note,
                                 median_cents |-> Median2(st.cur_cents),
                                 mean_confidence |->
                                     IF st.cur_confs # << >> THEN Mean(st.cur_confs)
                                     ELSE <<0, 1>>])
                    ELSE st.segments
         IN [segments |-> out, cur_note |-> None, cur_start |-> NoTime,
             cur_cents |-> << >>, cur_confs |-> << >>]

\* One iteration of the loop over zip(times, freqs, confs), lines 68-95.
LoopBody(st, last, t, f, c, msd, g, thr) ==
    IF ~Valid(f, c, thr)
    THEN IF st.cur_note # None /\ last # NoTime /\ GapExceeded(t, last, g)
         THEN close_segment(st, last, msd)
         ELSE st
    ELSE LET cents == hz_to_note(f)[3]
             note_str == NoteStr(f)
             opened == [cur_note |-> note_str, cur_start |-> t,
                        cur_cents |-> <<cents>>, cur_confs |-> <<c>>]
         IN IF st.cur_note = None
            THEN [segments |-> st.segments] @@ opened
            ELSE IF note_str # st.cur_note
                 THEN [segments |-> close_segment(st, NoteChangeEnd(last, t), msd).segments]
                      @@ opened
                 ELSE [st EXCEPT !.cur_cents = Append(@, cents),
                                 !.cur_confs = Append(@, c)]

\* Input frames of the segmenter as <<freq, conf>>: silence, a low-confidence
\* estimate, A4 exactly and 30 cents sharp, A#4 20 cents sharp.
SegFrames == {<<ZeroHz, 3>>, <<Hz(30), 1>>, <<Hz(0), 2>>, <<Hz(30), 3>>, <<Hz(120), 3>>}
\* Distances in time between consecutive frames.
TimeSteps == {1, 2}
GapSet == {0, 1}
MinSegDurSet == {0, 2}

SegIdle ==
    /\ times = << >> /\ freqs = << >> /\ confs = << >>
    /\ min_seg_dur = 0 /\ gap = 0 /\ conf_threshold = 0
    /\ segments = << >> /\ cur_note = None /\ cur_start = NoTime
    /\ cur_cents = << >> /\ cur_confs = << >> /\ last_time = NoTime
    /\ seg_pc = "idle"

\* State at line 45, for each configuration.
SegInit ==
    /\ times = << >> /\ freqs = << >> /\ confs = << >>
    /\ min_seg_dur \in MinSegDurSet
    /\ gap \in GapSet
    /\ conf_threshold = 2
    /\ segments = << >> /\ cur_note = None /\ cur_start = NoTime
    /\ cur_cents = << >> /\ cur_confs = << >> /\ last_time = NoTime
    /\ seg_pc = "loop"

\* The next element of zip(times, freqs, confs) and the loop body on it; the
\* arrays are revealed as the loop reads them.  The time of a frame is the
\* time of the frame before it (origin for the first frame) plus a step.
SegStep(steps, origin) ==
    /\ Len(times) < MaxFrames
    /\ \E dt \in steps, fr \in SegFrames :
         LET f == fr[1]
             c == fr[2]
             t == IF times = << >> THEN origin + dt ELSE times[Len(times)] + dt
             st == LoopBody(SegState, last_time, t, f, c, min_seg_dur, gap, conf_threshold)
         IN /\ times' = Append(times, t)
            /\ freqs' = Append(freqs, f)
            /\ confs' = Append(confs, c)
            /\ segments' = st.segments
            /\ cur_note' = st.cur_note
            /\ cur_start' = st.cur_start
            /\ cur_cents' = st.cur_cents
            /\ cur_confs' = st.cur_confs
            /\ last_time' = t
    /\ UNCHANGED <<min_seg_dur, gap, conf_threshold, seg_pc>>
    /\ UNCHANGED <<noteVars, liveVars, yinVars>>

\* A frame of arrays that are strictly ascending in time, from time 0 or 1.
SegFrame ==
    /\ seg_pc = "loop"
    /\ SegStep(TimeSteps, -1)

\* A frame of arrays in any order of time: the code reads times as given
\* (no check of the order between lines 36 and 68).  The times stay
\* positive.
AnyTimeSteps == {-1, 0, 1}
SegFrameAnyOrder ==
    /\ seg_pc = "loop"
    /\ SegStep(AnyTimeSteps, MaxFrames)

\* End of the arrays: close the trailing segment and return, lines 97-101.
SegReturn ==
    /\ seg_pc = "loop"
    /\ LET st == IF cur_note # None /\ last_time # NoTime /\ cur_start # NoTime
                 THEN close_segment(SegState, last_time, min_seg_dur)
                 ELSE SegState
       IN /\ segments' = st.segments
          /\ cur_note' = st.cur_note
          /\ cur_start' = st.cur_start
          /\ cur_cents' = st.cur_cents
          /\ cur_confs' = st.cur_confs
    /\ seg_pc' = "done"
    /\ UNCHANGED <<times, freqs, confs, min_seg_dur, gap, conf_threshold, last_time>>
    /\ UNCHANGED <<noteVars, liveVars, yinVars>>

(***************************************************************************)
(* The note mapper applied to bounded inputs.                              *)
(***************************************************************************)
NoteIdle == n_in = [kind |-> "none"] /\ n_out = << >> /\ n_pc = "idle"

\* MIDI values (times 100) around MIDI 0 and around A4 = MIDI 69.
MidiInputs == {d : d \in -MaxMidiCents..MaxMidiCents}
              \cup {6900 + d : d \in -MaxMidiCents..MaxMidiCents}

NoteInit ==
    /\ n_pc = "call"
    /\ n_out = << >>
    /\ \/ \E m \in MidiInputs : n_in = [kind |-> "hz", f |-> midi_to_hz(m)]
       \/ \E i \in 1..12, o \in -MaxOctave..MaxOctave :
            n_in = [kind |-> "note", name |-> NOTE_NAMES[i], octave |-> o]

\* hz_to_note(f, a4)
CallHzToNote ==
    /\ n_pc = "call" /\ n_in.kind = "hz"
    /\ n_out' = hz_to_note(n_in.f)
    /\ n_pc' = "done"
    /\ UNCHANGED <<n_in, segVars, liveVars, yinVars>>

\* hz_to_note(note_to_hz(name, octave, a4), a4)
CallRoundTrip ==
    /\ n_pc = "call" /\ n_in.kind = "note"
    /\ n_out' = hz_to_note(note_to_hz(n_in.name, n_in.octave))
    /\ n_pc' = "done"
    /\ UNCHANGED <<n_in, segVars, liveVars, yinVars>>

(***************************************************************************)
(* scripts/live_tuner.py: main.                                            *)
(***************************************************************************)
\* int(s) of a two-character string.
DigitVal(ch) == (CHOOSE i \in 1..10 : DigitChars[i] = ch) - 1

StrInt2(s) ==
    IF s[1] = "-" THEN -DigitVal(s[2]) ELSE 10 * DigitVal(s[1]) + DigitVal(s[2])

\* line 92: the gate, np.isfinite(f) and f > 0 and conf >= args.conf
AcceptedNoConf(f, c, thr) == IsFinite(f) /\ Positive(f)

Accepted(f, c, thr) == IsFinite(f) /\ Positive(f) /\ c >= thr

\* line 64: collections.deque(maxlen=max(1, args.median)) and its append.
DequeAppendNoEvict(h, x, maxlen) == Append(h, x)

DequeAppend(h, x, maxlen) ==
    IF Len(h) < maxlen THEN Append(h, x) ELSE Append(Tail(h), x)

\* line 105: np.median(freq_hist) of frequencies.  The middle element of an
\* odd count; for an even count the arithmetic mean in Hz of the two middle
\* elements, which in cents lies between their midpoint and the upper one,
\* and less than one cent above the midpoint when the two are no more than
\* MeanSpread cents apart.
MeanSpread == 117

RECURSIVE CentsOf(_)
CentsOf(h) == IF h = << >> THEN << >> ELSE <<Head(h).cents>> \o CentsOf(Tail(h))

MedianHz(h) ==
    LET srt == Sorted(CentsOf(h))
        n == Len(h)
        lo == srt[n \div 2]
        hi == srt[n \div 2 + 1]
    IN IF n % 2 = 1 THEN {Hz(srt[(n + 1) \div 2])}
       ELSE IF lo = hi THEN {Hz(lo)}
       ELSE {Hz(c) : c \in {x \in lo..hi :
                              /\ 2 * x >= lo + hi
                              /\ hi - lo <= MeanSpread => 2 * x <= lo + hi + 2}}

\* line 107: cur_note = f"{name}{octave:02d}"
LiveLabel(f) == LET n == hz_to_note(f) IN n[1] \o IntStr02d(n[2])

\* lines 112-113: prev_name = shown_note[:-2]; prev_octave = int(shown_note[-2:])
PrevName(label) == SubSeq(label, 1, Len(label) - 2)
PrevOctave(label) == StrInt2(SubSeq(label, Len(label) - 1, Len(label)))

\* line 117: 1200 * log2(f_med / f_prev)
CentsDelta(f_med, f_prev) == f_med.cents - f_prev.cents

\* line 118: abs(cents_delta) < args.hysteresis
KeepOldFromCandidate(f_med, label, hyst) ==
    LET n == hz_to_note(f_med) IN Abs(CentsDelta(f_med, note_to_hz(n[1], n[2]))) < hyst

KeepOldLeq(f_med, label, hyst) ==
    Abs(CentsDelta(f_med, note_to_hz(PrevName(label), PrevOctave(label)))) <= hyst

KeepOld(f_med, label, hyst) ==
    Abs(CentsDelta(f_med, note_to_hz(PrevName(label), PrevOctave(label)))) < hyst

\* Blocks as detect_pitch sees them: the PitchResult each one produces.
PitchResult(f, c) == [raises |-> FALSE, frequency |-> f, confidence |-> c]
Raising == [raises |-> TRUE, frequency |-> ZeroHz, confidence |-> 0]

\* Blocks, each held as what detect_pitch does on it: tones on either side
\* of the A4/A#4 boundary, a low-confidence tone, the non-positive and
\* non-finite frequencies, and a block on which detect_pitch raises.
LiveBlocks == {PitchResult(Hz(0), 2), PitchResult(Hz(45), 2), PitchResult(Hz(55), 3),
               PitchResult(Hz(100), 2), PitchResult(Hz(45), 1), PitchResult(ZeroHz, 2),
               PitchResult(NegHz, 2), PitchResult(NanHz, 2), PitchResult(InfHz, 2),
               Raising}
HysteresisSet == {10, 50, 60}

LiveIdle ==
    /\ q = << >> /\ freq_hist = << >> /\ shown_note = None /\ shown_freq = ZeroHz
    /\ median = 0 /\ hysteresis = 0 /\ conf = 0 /\ display = "" /\ stream = "closed"
    /\ live_pc = "idle" /\ produced = 0

\* State at line 81, for each command line.
LiveInit ==
    /\ q = << >> /\ freq_hist = << >> /\ shown_note = None /\ shown_freq = ZeroHz
    /\ median \in 0..MaxMedian
    /\ hysteresis \in HysteresisSet
    /\ conf = 2
    /\ display = "" /\ stream = "closed"
    /\ live_pc = "start" /\ produced = 0

\* line 83: with stream: the stream is started.
LiveEnter ==
    /\ live_pc = "start"
    /\ stream' = "open"
    /\ live_pc' = "loop"
    /\ UNCHANGED <<q, freq_hist, shown_note, shown_freq, liveArgs, display, produced>>
    /\ UNCHANGED <<segVars, noteVars, yinVars>>

\* lines 49-53: the audio callback puts a block on the queue.
LiveCallback ==
    /\ stream = "open"
    /\ produced < MaxBlocks
    /\ Len(q) < MaxQueue
    /\ \E b \in LiveBlocks : q' = Append(q, b)
    /\ produced' = produced + 1
    /\ UNCHANGED <<freq_hist, shown_note, shown_freq, liveArgs, display, stream, live_pc>>
    /\ UNCHANGED <<segVars, noteVars, yinVars>>

\* lines 85-101: a block is taken and the gate rejects it.
LiveReject ==
    /\ live_pc = "loop" /\ q # << >>
    /\ ~Head(q).raises
    /\ ~Accepted(Head(q).frequency, Head(q).confidence, conf)
    /\ q' = Tail(q)
    /\ display' = "(no pitch)"
    /\ UNCHANGED <<freq_hist, shown_note, shown_freq, liveArgs, stream, live_pc, produced>>
    /\ UNCHANGED <<segVars, noteVars, yinVars>>

\* lines 110-115: the shown note is parsed back when the candidate differs
\* from it; NOTE_NAMES.index raises ValueError on a name outside the table.
ParseRaises(cand, shown) ==
    shown # None /\ cand # shown /\ NameIndex(PrevName(shown)) < 0

\* lines 85-128: a block is taken, accepted, smoothed and displayed.
LiveAccept ==
    /\ live_pc = "loop" /\ q # << >>
    /\ ~Head(q).raises
    /\ Accepted(Head(q).frequency, Head(q).confidence, conf)
    /\ q' = Tail(q)
    /\ freq_hist' = DequeAppend(freq_hist, Head(q).frequency, Max(1, median))
    /\ \E f_med \in MedianHz(freq_hist') :
         LET cand == LiveLabel(f_med)
         IN /\ ~ParseRaises(cand, shown_note)
            /\ shown_note' = IF /\ shown_note # None
                                /\ cand # shown_note
                                /\ KeepOld(f_med, shown_note, hysteresis)
                             THEN shown_note ELSE cand
            /\ shown_freq' = f_med
    /\ display' = "pitch"
    /\ UNCHANGED <<liveArgs, stream, live_pc, produced>>
    /\ UNCHANGED <<segVars, noteVars, yinVars>>

\* line 83: leaving the with block, by an exception or by KeyboardInterrupt,
\* runs the stream's __exit__, which stops and closes it.
StreamExitLeak(s) == s

StreamExit(s) == "closed"

\* lines 85-115: an exception while a block is processed, from detect_pitch
\* (line 87) or from parsing the shown note (line 115), leaves the with
\* block, which closes the stream, and main.
LiveRaise ==
    /\ live_pc = "loop" /\ q # << >>
    /\ q' = Tail(q)
    /\ \/ /\ Head(q).raises
          /\ UNCHANGED freq_hist
       \/ /\ ~Head(q).raises
          /\ Accepted(Head(q).frequency, Head(q).confidence, conf)
          /\ freq_hist' = DequeAppend(freq_hist, Head(q).frequency, Max(1, median))
          /\ \E f_med \in MedianHz(freq_hist') : ParseRaises(LiveLabel(f_med), shown_note)
    /\ stream' = StreamExit(stream)
    /\ live_pc' = "raised"
    /\ UNCHANGED <<shown_note, shown_freq, liveArgs, display, produced>>
    /\ UNCHANGED <<segVars, noteVars, yinVars>>

\* lines 135-136: KeyboardInterrupt inside the with block.
LiveInterrupt ==
    /\ live_pc = "loop"
    /\ stream' = StreamExit(stream)
    /\ live_pc' = "stopped"
    /\ display' = "Stopped."
    /\ UNCHANGED <<q, freq_hist, shown_note, shown_freq, liveArgs, produced>>
    /\ UNCHANGED <<segVars, noteVars, yinVars>>

(***************************************************************************)
(* pitch.py: yin and detect_pitch.                                         *)
(*                                                                         *)
(* Samples are integers; sr, fmin and fmax are non-negative integers.  The *)
(* difference function is then an integer and every cmnd value a rational  *)
(* <<num, den>> with den >= 1.  The 1e-12 added to the running sum only    *)
(* matters where the running sum is 0 (the value is then 0) and where a    *)
(* value equals the threshold exactly (it then compares below it).         *)
(***************************************************************************)
\* threshold = 0.1 = 1 / YinThresholdDen
YinThresholdDen == 10

\* int(a / b) for a, b > 0
IntDiv(a, b) == a \div b

\* lines 63-65: d[tau] = sum over i of (x[i] - x[i + tau])^2
RECURSIVE DiffSum(_, _, _)
DiffSum(x, tau, i) ==
    IF i + tau > Len(x) THEN 0
    ELSE (x[i] - x[i + tau]) * (x[i] - x[i + tau]) + DiffSum(x, tau, i + 1)

Difference(x, tau) == DiffSum(x, tau, 1)

\* line 72: running_sum after lag tau
RECURSIVE RunningSum(_, _)
RunningSum(x, tau) == IF tau = 0 THEN 0 ELSE Difference(x, tau) + RunningSum(x, tau - 1)

\* lines 68-73: cmnd[tau]
Cmnd(x, tau) ==
    IF tau = 0 THEN <<1, 1>>
    ELSE IF RunningSum(x, tau) = 0 THEN <<0, 1>>
    ELSE <<Difference(x, tau) * tau, RunningSum(x, tau)>>

\* line 79: cmnd[tau] < threshold
BelowThreshold(cm) == YinThresholdDen * cm[1] <= cm[2]

RatLess(a, b) == a[1] * b[2] < b[1] * a[2]

\* round() of the rational n / d, d > 0: nearest integer, a tie to the even.
RoundRat(n, d) ==
    LET whole == n \div d
        rem2 == 2 * (n % d)
    IN IF rem2 < d THEN whole
       ELSE IF rem2 > d THEN whole + 1
       ELSE IF whole % 2 = 0 THEN whole ELSE whole + 1

\* lines 82-87: the lag after parabolic interpolation around tau, as the
\* rational <<n, d>> with d > 0.
Refine(x, tau) ==
    LET a == Cmnd(x, tau - 1)
        b == Cmnd(x, tau)
        c == Cmnd(x, tau + 1)
        \* 2b - a - c = P / D and c - a = Q / D, with D = a[2] * b[2] * c[2]
        P == 2 * b[1] * a[2] * c[2] - a[1] * b[2] * c[2] - c[1] * a[2] * b[2]
        Q == c[1] * a[2] * b[2] - a[1] * b[2] * c[2]
    IN IF P = 0 THEN <<tau, 1>>
       ELSE IF P > 0 THEN <<2 * P * tau + Q, 2 * P>>
       ELSE <<-(2 * P * tau + Q), -(2 * P)>>

\* line 93: np.argmin(cmnd[min_tau:max_tau]) + min_tau, the first minimum.
ArgMin(x, min_tau, max_tau) ==
    CHOOSE t \in min_tau..(max_tau - 1) :
        \A u \in min_tau..(max_tau - 1) :
            /\ ~RatLess(Cmnd(x, u), Cmnd(x, t))
            /\ u < t => RatLess(Cmnd(x, t), Cmnd(x, u))

Raise(exc) == [kind |-> "raise", exc |-> exc, frequency |-> <<0, 1>>, confidence |-> <<0, 1>>]
Result(f, c) == [kind |-> "ok", exc |-> "", frequency |-> f, confidence |-> c]

\* line 98: max(0.0, min(1.0, (0.5 - cm) / 0.5))
Confidence(cm) ==
    IF cm[2] - 2 * cm[1] <= 0 THEN <<0, 1>>
    ELSE IF cm[1] = 0 THEN <<1, 1>>
    ELSE <<cm[2] - 2 * cm[1], cm[2]>>

\* yin(frame, sr, fmin, fmax), lines 50-99.
yin(x, sr, fmin, fmax) ==
    LET N == Len(x)
    IN IF fmin = 0 \/ fmax = 0 THEN Raise("ZeroDivisionError")
       ELSE
       LET min_tau == Max(2, IntDiv(sr, fmax))
           max_tau == Min(IntDiv(sr, fmin), N - 2)
           crossing == {t \in min_tau..(max_tau - 1) : BelowThreshold(Cmnd(x, t))}
       IN IF max_tau + 1 < 0 THEN Raise("ValueError")
          ELSE IF max_tau + 1 = 0 THEN Raise("IndexError")
          ELSE
          LET first == CHOOSE t \in crossing : \A u \in crossing : t <= u
              refined == IF crossing = {} THEN <<0, 1>> ELSE Refine(x, first)
          IN IF refined[1] = 0 /\ min_tau >= max_tau THEN Raise("ValueError")
             ELSE
             LET best_tau == IF refined[1] = 0
                             THEN <<ArgMin(x, min_tau, max_tau), 1>>
                             ELSE refined
                 idx == RoundRat(best_tau[1], best_tau[2])
                 len == max_tau + 1
             IN IF idx >= len \/ idx < -len THEN Raise("IndexError")
                ELSE Result(<<sr * best_tau[2], best_tau[1]>>,
                            Confidence(Cmnd(x, IF idx < 0 THEN idx + len ELSE idx)))

\* detect_pitch(frame, sr, fmin, fmax) on a mono frame, lines 102-120: the
\* Hann window keeps the length of the frame; x is the windowed frame.
detect_pitch(x, sr, fmin, fmax) == yin(x, sr, fmin, fmax)

Samples == {-1, 0, 1}
SampleRates == {8, 12}
YinFmins == {1, 2, 4}
YinFmaxs == {2, 4, 8}

RECURSIVE FramesOfLen(_)
FramesOfLen(n) ==
    IF n = 0 THEN {<< >>}
    ELSE {Append(s, v) : s \in FramesOfLen(n - 1), v \in Samples}

YinIdle ==
    /\ y_x = << >> /\ y_sr = 0 /\ y_fmin = 0 /\ y_fmax = 0
    /\ y_res = Raise("") /\ y_pc = "idle"

\* Two longer frames whose cmnd is still descending where it first falls
\* below the threshold.
DescendingFrames == {<<1, 1, 1, 2, -2, 2, 0, 1, 1>>,
                     <<2, 2, 1, 3, -5, 5, 3, 4, 4, 2>>}

YinInit ==
    /\ \/ \E n \in 0..MaxN : y_x \in FramesOfLen(n)
       \/ y_x \in DescendingFrames
    /\ y_sr \in SampleRates
    /\ y_fmin \in YinFmins
    /\ y_fmax \in YinFmaxs
    /\ y_res = Raise("")
    /\ y_pc = "call"

\* The call returns a PitchResult.
YinReturn ==
    /\ y_pc = "call"
    /\ y_res' = detect_pitch(y_x, y_sr, y_fmin, y_fmax)
    /\ y_res'.kind = "ok"
    /\ y_pc' = "done"
    /\ UNCHANGED <<y_x, y_sr, y_fmin, y_fmax, segVars, noteVars, liveVars>>

\* The call raises.
YinRaise ==
    /\ y_pc = "call"
    /\ y_res' = detect_pitch(y_x, y_sr, y_fmin, y_fmax)
    /\ y_res'.kind = "raise"
    /\ y_pc' = "done"
    /\ UNCHANGED <<y_x, y_sr, y_fmin, y_fmax, segVars, noteVars, liveVars>>

(***************************************************************************)
(* Specifications.                                                         *)
(***************************************************************************)
InitSeg == SegInit /\ NoteIdle /\ LiveIdle /\ YinIdle
NextSeg == SegFrame \/ SegReturn
SpecSeg == InitSeg /\ [][NextSeg]_vars

\* segment_notes on arrays in any order of time.
NextSegAnyOrder == SegFrameAnyOrder \/ SegReturn
SpecSegAnyOrder == InitSeg /\ [][NextSegAnyOrder]_vars

InitNote == NoteInit /\ SegIdle /\ LiveIdle /\ YinIdle
NextNote == CallHzToNote \/ CallRoundTrip
SpecNote == InitNote /\ [][NextNote]_vars

InitLive == LiveInit /\ SegIdle /\ NoteIdle /\ YinIdle
NextLive ==
    LiveEnter \/ LiveCallback \/ LiveReject \/ LiveAccept \/ LiveRaise \/ LiveInterrupt
SpecLive == InitLive /\ [][NextLive]_vars

InitYin == YinInit /\ SegIdle /\ NoteIdle /\ LiveIdle
NextYin == YinReturn \/ YinRaise
SpecYin == InitYin /\ [][NextYin]_vars
(***************************************************************************)
(* Properties of segment_notes.                                            *)
(***************************************************************************)
NFrames == Len(times)
IsValidFrame(i) == freqs[i].kind = "pos" /\ confs[i] >= conf_threshold
FrameLabel(i) == NoteStr(freqs[i])
ValidIdx == {i \in 1..NFrames : IsValidFrame(i)}
SameLabelInput == \A i, j \in ValidIdx : FrameLabel(i) = FrameLabel(j)
FirstValid == CHOOSE i \in ValidIdx : \A j \in ValidIdx : i <= j
LastValid == CHOOSE i \in ValidIdx : \A j \in ValidIdx : j <= i
LastValidBefore(i) == CHOOSE k \in ValidIdx : k < i /\ \A j \in ValidIdx : j < i => j <= k

\* The input is a run of valid frames, a stretch of invalid frames reaching
\* more than `gap` beyond the last valid frame, and a second run of valid
\* frames of the same label; each run lasts at least min_seg_dur.
GapSplitInput ==
    \E b \in 1..NFrames, c \in 1..NFrames :
        /\ b + 1 < c
        /\ \A i \in 1..NFrames : IsValidFrame(i) <=> (i <= b \/ i >= c)
        /\ SameLabelInput
        /\ times[c - 1] - times[b] > gap
        /\ times[b] - times[1] >= min_seg_dur
        /\ times[NFrames] - times[c] >= min_seg_dur

\* C1: two same-label runs separated by an invalid stretch that reaches more
\* than `gap` beyond the last valid frame come out as two segments, the
\* first ending strictly before the second starts, whatever the number and
\* spacing of the invalid frames.
C1_GapSplits ==
    (seg_pc = "done" /\ GapSplitInput) =>
        /\ Len(segments) = 2
        /\ segments[1].end_s < segments[2].start_s

\* The input is one same-label run lasting at least min_seg_dur whose invalid
\* frames all lie within `gap` of the last valid frame before them.
MergeInput ==
    /\ ValidIdx # {}
    /\ SameLabelInput
    /\ times[LastValid] - times[FirstValid] >= min_seg_dur
    /\ \A i \in 1..NFrames :
          (~IsValidFrame(i) /\ i > FirstValid) =>
              times[i] - times[LastValidBefore(i)] <= gap

\* C3: a same-label run lasting at least min_seg_dur, interrupted only by
\* invalid stretches no longer than `gap`, yields exactly one segment.
C3_RunMerged == (seg_pc = "done" /\ MergeInput) => Len(segments) = 1

C3_Witness ==
    /\ seg_pc = "done" /\ MergeInput /\ Len(segments) = 1
    /\ \E i \in 1..NFrames : ~IsValidFrame(i) /\ FirstValid < i /\ i < LastValid

\* C4: every returned segment lasts at least min_seg_dur.
C4_MinDuration ==
    \A k \in 1..Len(segments) : segments[k].end_s - segments[k].start_s >= min_seg_dur

InSomeSegment(i) ==
    \E k \in 1..Len(segments) :
        segments[k].start_s <= times[i] /\ times[i] <= segments[k].end_s

\* A run was closed too short and left no segment, next to one that was kept.
C4_Witness ==
    /\ seg_pc = "done" /\ min_seg_dur > 0 /\ Len(segments) >= 1
    /\ \E i \in ValidIdx : ~InSomeSegment(i)

\* C5: the returned segments are in strictly ascending start order and
\* consecutive segments do not touch: s_i.end_s < s_{i+1}.start_s.
C5_OrderedDisjoint ==
    \A k \in 1..(Len(segments) - 1) :
        /\ segments[k].start_s < segments[k + 1].start_s
        /\ segments[k].end_s < segments[k + 1].start_s

C5_Witness ==
    /\ seg_pc = "done" /\ Len(segments) >= 2
    /\ \E k \in 1..(Len(segments) - 1) : segments[k].note # segments[k + 1].note

\* The cents (resp. confidences) of the valid frames whose time lies in
\* [lo, hi], in input order.
RECURSIVE WindowCents(_, _, _)
WindowCents(i, lo, hi) ==
    IF i > NFrames THEN << >>
    ELSE (IF IsValidFrame(i) /\ lo <= times[i] /\ times[i] <= hi
          THEN <<hz_to_note(freqs[i])[3]>> ELSE << >>) \o WindowCents(i + 1, lo, hi)

RECURSIVE WindowConfs(_, _, _)
WindowConfs(i, lo, hi) ==
    IF i > NFrames THEN << >>
    ELSE (IF IsValidFrame(i) /\ lo <= times[i] /\ times[i] <= hi
          THEN <<confs[i]>> ELSE << >>) \o WindowConfs(i + 1, lo, hi)

\* C7: every segment's median_cents and mean_confidence are those of exactly
\* the valid frames whose time lies in [start_s, end_s].
C7_StatsFromOwnFrames ==
    \A k \in 1..Len(segments) :
        LET s == segments[k]
            cs == WindowCents(1, s.start_s, s.end_s)
            fs == WindowConfs(1, s.start_s, s.end_s)
        IN /\ cs # << >>
           /\ s.median_cents = Median2(cs)
           /\ s.mean_confidence = Mean(fs)

\* A kept segment of several frames with an invalid frame inside its span,
\* next to a discarded run.
C7_Witness ==
    /\ seg_pc = "done" /\ Len(segments) >= 1
    /\ \E i \in ValidIdx : ~InSomeSegment(i)
    /\ \E i \in 1..NFrames : ~IsValidFrame(i) /\ InSomeSegment(i)
    /\ \E k \in 1..Len(segments) :
          Len(WindowCents(1, segments[k].start_s, segments[k].end_s)) >= 2

(***************************************************************************)
(* Properties of the live tuner.                                           *)
(***************************************************************************)
\* The consumer loop takes the block at the head of the queue.
TakesBlock == q # << >> /\ q' = Tail(q)

\* The block's frequency is not finite, or is <= 0, or its confidence is
\* below the threshold.
GateFails(b) ==
    \/ b.frequency.kind \in {"nan", "inf"}
    \/ b.frequency.kind \in {"zero", "neg"}
    \/ b.confidence < conf

\* x and y lie on opposite sides of the boundary between two adjacent notes
\* (a pitch 50 cents above a note center), each less than hyst cents from it.
AcrossBoundary(x, y, hyst) ==
    \E bnd \in (Min(x, y) + 1)..(Max(x, y) - 1) :
        /\ bnd % 100 = 50
        /\ Abs(x - bnd) < hyst
        /\ Abs(y - bnd) < hyst

\* C2: when the median frequency goes from one to the other of two values on
\* opposite sides of a note boundary, each less than hysteresis cents from
\* the boundary, the history holding only these two values and shown_note
\* being the note of the first, shown_note does not change.
C2_NoToggle ==
    [][(/\ TakesBlock
        /\ shown_note # None
        /\ display' = "pitch"
        /\ shown_note = LiveLabel(shown_freq)
        /\ \A i \in 1..Len(freq_hist') :
               freq_hist'[i].cents \in {shown_freq.cents, shown_freq'.cents}
        /\ AcrossBoundary(shown_freq.cents, shown_freq'.cents, hysteresis))
       => shown_note' = shown_note]_vars

\* C8: a live frame that fails the gate leaves the frequency history and
\* shown_note as they were, and only a frame that passes the gate changes
\* the history.
C8_GateFrame ==
    [][/\ (TakesBlock /\ ~Head(q).raises /\ GateFails(Head(q)))
            => (freq_hist' = freq_hist /\ shown_note' = shown_note)
       /\ freq_hist' # freq_hist
            => (TakesBlock /\ ~Head(q).raises /\ ~GateFails(Head(q)))]_vars

\* A frame was rejected after the history and the shown note were set.
C8_Witness == display = "(no pitch)" /\ freq_hist # << >> /\ shown_note # None

(***************************************************************************)
(* Properties of the note mapper.                                          *)
(***************************************************************************)
\* C9: (name, octave) -> MIDI -> (name, octave, cents) is the identity with
\* cents 0, for every table name and every octave, negative ones included.
C9_RoundTrip ==
    (n_pc = "done" /\ n_in.kind = "note") => n_out = <<n_in.name, n_in.octave, 0>>

C9_Witness ==
    /\ n_pc = "done" /\ n_in.kind = "note" /\ n_in.octave < -1
    /\ n_out = <<n_in.name, n_in.octave, 0>>

\* C10 as stated: the cents of hz_to_note lie in (-50, 50].
C10_CentsHalfOpen ==
    (n_pc = "done" /\ n_in.kind = "hz") => (-50 < n_out[3] /\ n_out[3] <= 50)

\* C10 amended: the cents of hz_to_note lie in [-50, 50].
C10_CentsClosed ==
    (n_pc = "done" /\ n_in.kind = "hz") => (-50 <= n_out[3] /\ n_out[3] <= 50)

\* A MIDI value halfway between an odd and the next even integer gives -50.
C10_Witness == n_pc = "done" /\ n_in.kind = "hz" /\ n_out[3] = -50

(***************************************************************************)
(* Properties of the estimator.                                            *)
(***************************************************************************)
\* A frame of fewer than 2 samples, or fmin >= fmax, or maxLag < minLag.
Malformed ==
    \/ Len(y_x) < 2
    \/ y_fmin >= y_fmax
    \/ /\ y_fmin > 0 /\ y_fmax > 0
       /\ Min(y_sr \div y_fmin, Len(y_x) - 2) < Max(2, y_sr \div y_fmax)

\* C6: on malformed input the estimator returns frequency 0 and confidence 0
\* and does not raise.
C6_DegenerateResult ==
    (y_pc = "done" /\ Malformed) =>
        /\ y_res.kind = "ok"
        /\ y_res.frequency[1] = 0
        /\ y_res.confidence[1] = 0

(***************************************************************************)
(* Note-boundary rounding.                                                 *)
(***************************************************************************)
\* The name and octave of the integer MIDI note k.
LabelOfMidi(k) == <<NOTE_NAMES[(k % 12) + 1], (k \div 12) - 1>>

\* The input pitch of a hz_to_note call as a MIDI value times 100.
InputMidi == 6900 + n_in.f.cents

\* The integer MIDI notes k with the input pitch within 150 cents of k.
NearNotes == {k \in -4..73 : Abs(InputMidi - 100 * k) < 150}

\* C11: hz_to_note of the pitch k + d/100 gives the label of k with cents d
\* when |d| < 50, the label of k+1 when 50 < d < 150 and the label of k-1
\* when -150 < d < -50.
C11_BoundaryRounding ==
    (n_pc = "done" /\ n_in.kind = "hz") =>
        \A k \in NearNotes :
            LET d == InputMidi - 100 * k
            IN /\ Abs(d) < 50 => n_out = LabelOfMidi(k) \o <<d>>
               /\ (50 < d /\ d < 150) => <<n_out[1], n_out[2]>> = LabelOfMidi(k + 1)
               /\ (-150 < d /\ d < -50) => <<n_out[1], n_out[2]>> = LabelOfMidi(k - 1)

\* A pitch 51 cents below MIDI 0 (C-1): the label is the note below, B-2,
\* across the octave boundary, 49 cents sharp.
C11_Witness ==
    /\ n_pc = "done" /\ n_in.kind = "hz" /\ InputMidi = -51
    /\ n_out = <<NOTE_NAMES[12], -2, 49>>

(***************************************************************************)
(* Release of the capture stream.                                          *)
(***************************************************************************)
\* The consumer loop has been left, by KeyboardInterrupt or by an exception.
Terminated == live_pc \in {"stopped", "raised"}

\* C12: once the consumer loop has terminated, on either exit path, the
\* input stream that was opened is closed.
C12_StreamReleased == Terminated => stream = "closed"

\* An exception while a block is processed, after blocks were captured, and
\* the stream is closed.
C12_Witness == live_pc = "raised" /\ produced > 0 /\ stream = "closed"

(***************************************************************************)
(* Range of the estimator's result.                                        *)
(***************************************************************************)
\* min_tau and max_tau of the call (lines 59-61).
CallMinTau == Max(2, IntDiv(y_sr, y_fmax))
CallMaxTau == Min(IntDiv(y_sr, y_fmin), Len(y_x) - 2)

\* The lags of the scan (line 78) whose cmnd is below the threshold.
CallCrossing ==
    {t \in CallMinTau..(CallMaxTau - 1) : BelowThreshold(Cmnd(y_x, t))}

\* The call reached the parabolic refinement of a threshold-crossing lag.
CallRefines == y_pc = "done" /\ CallMaxTau >= 0 /\ CallCrossing # {}

\* The refined lag, as a fraction with a positive denominator.
CallRefinedLag == Refine(y_x, CHOOSE t \in CallCrossing : \A u \in CallCrossing : t <= u)

\* C13: a returned result has frequency >= 0 and confidence in [0, 1], and
\* a refined lag is positive with round(lag) an index in [0, maxLag].
C13_ResultInRange ==
    /\ (y_pc = "done" /\ y_res.kind = "ok") =>
          /\ \/ y_res.frequency[1] >= 0 /\ y_res.frequency[2] > 0
             \/ y_res.frequency[1] <= 0 /\ y_res.frequency[2] < 0
          /\ 0 <= y_res.confidence[1]
          /\ y_res.confidence[1] <= y_res.confidence[2]
    /\ CallRefines =>
          /\ CallRefinedLag[1] > 0
          /\ RoundRat(CallRefinedLag[1], CallRefinedLag[2]) \in 0..CallMaxTau

(***************************************************************************)
(* The precondition on times.                                              *)
(***************************************************************************)
StrictlyAscending(ts) == \A i \in 1..(Len(ts) - 1) : ts[i] < ts[i + 1]

\* C15: segment_notes returns a list of segments only when times is
\* strictly ascending; otherwise the call fails.
C15_AscendingEnforced == seg_pc = "done" => StrictlyAscending(times)

(***************************************************************************)
(* Boundaries of the segments.                                             *)
(***************************************************************************)
\* C16: every segment ends at the time of a valid frame of its own note,
\* never at the time of an invalid frame.
C16_EndsAtValidFrame ==
    \A k \in 1..Len(segments) :
        \E i \in ValidIdx :
            /\ times[i] = segments[k].end_s
            /\ FrameLabel(i) = segments[k].note

\* C17: every segment has start_s < end_s.
C17_StartBeforeEnd ==
    \A k \in 1..Len(segments) : segments[k].start_s < segments[k].end_s

\* C18: every segment starts at the time of a valid frame of its note, and
\* every valid frame with time in [start_s, end_s] has that note; a valid
\* frame whose label differs from the valid frame before it starts the
\* current run at its own time.
C18_NoteChangeBoundary ==
    /\ \A k \in 1..Len(segments) :
          /\ \E i \in ValidIdx :
                times[i] = segments[k].start_s /\ FrameLabel(i) = segments[k].note
          /\ \A i \in ValidIdx :
                (segments[k].start_s <= times[i] /\ times[i] <= segments[k].end_s)
                    => FrameLabel(i) = segments[k].note
    /\ (seg_pc = "loop" /\ NFrames >= 1 /\ IsValidFrame(NFrames)) =>
          /\ cur_note = FrameLabel(NFrames)
          /\ (\A j \in ValidIdx : j < NFrames =>
                  FrameLabel(LastValidBefore(NFrames)) # FrameLabel(NFrames))
                => cur_start = times[NFrames]

\* Two valid frames next to each other with different labels, each the
\* boundary of its own segment.
C18_Witness ==
    /\ seg_pc = "done"
    /\ \E k \in 1..(Len(segments) - 1), i \in 1..(NFrames - 1) :
          /\ IsValidFrame(i) /\ IsValidFrame(i + 1)
          /\ FrameLabel(i) # FrameLabel(i + 1)
          /\ segments[k].end_s = times[i]
          /\ segments[k + 1].start_s = times[i + 1]
          /\ times[i + 1] - times[i] <= gap

\* C17 amended: every segment has start_s <= end_s, and start_s < end_s
\* whenever min_seg_dur > 0.
C17_StartNotAfterEnd ==
    \A k \in 1..Len(segments) :
        /\ segments[k].start_s <= segments[k].end_s
        /\ min_seg_dur > 0 => segments[k].start_s < segments[k].end_s

\* With min_seg_dur = 0 a run of a single valid frame, closed at its own
\* time, is returned as a segment of duration 0.
C17_Witness ==
    /\ seg_pc = "done" /\ min_seg_dur = 0
    /\ \E k \in 1..Len(segments) :
          /\ segments[k].start_s = segments[k].end_s
          /\ Len(WindowCents(1, segments[k].start_s, segments[k].end_s)) = 1

(***************************************************************************)
(* The switch rule and the history of the live tuner.                      *)
(***************************************************************************)
\* The consumer loop takes a block that passes the gate and displays it.
AcceptStep ==
    TakesBlock /\ ~Head(q).raises /\ ~GateFails(Head(q)) /\ live_pc' = "loop"

\* The pitch, in cents from a4, of the centre of the note shown as label.
CentreOf(label) ==
    CHOOSE c \in {100 * k : k \in -2..3} : LiveLabel(Hz(c)) = label

\* C19: on an accepted frame with shown_note set and another candidate,
\* shown_note becomes the candidate exactly when the median is at least
\* hysteresis cents from the centre of the shown note, and otherwise stays;
\* with shown_note unset the candidate is taken unconditionally.
C19_SwitchRule ==
    [][AcceptStep =>
         LET cand == LiveLabel(shown_freq')
         IN /\ shown_note = None => shown_note' = cand
            /\ (shown_note # None /\ cand # shown_note) =>
                  IF Abs(shown_freq'.cents - CentreOf(shown_note)) >= hysteresis
                  THEN shown_note' = cand
                  ELSE shown_note' = shown_note]_vars

\* The shown note was kept although the median is in the neighbouring note.
C19_Witness ==
    /\ display = "pitch" /\ shown_note # None
    /\ shown_note # LiveLabel(shown_freq)

\* The capacity of the history: W, and 1 when W < 1.
Capacity == IF median < 1 THEN 1 ELSE median

\* The last n elements of s.
LastN(s, n) == SubSeq(s, Len(s) - n + 1, Len(s))

\* x is a median of the frequencies of h: the middle one of an odd count,
\* and for an even count a value between the two middle ones, not below
\* their midpoint in cents.
IsMedianOf(x, h) ==
    LET srt == Sorted(CentsOf(h))
        n == Len(h)
    IN IF n % 2 = 1 THEN x.cents = srt[(n + 1) \div 2]
       ELSE /\ srt[n \div 2] + srt[n \div 2 + 1] <= 2 * x.cents
            /\ x.cents <= srt[n \div 2 + 1]

\* C20: the history never holds more than its capacity; each accepted
\* frequency is appended and only the oldest entries beyond the capacity
\* are dropped, so that the history is the last min(W, n) accepted
\* frequencies in arrival order; the median displayed is the median of
\* exactly these entries.
C20_BoundedFifo ==
    /\ [](Len(freq_hist) <= Capacity)
    /\ [][AcceptStep =>
            LET all == Append(freq_hist, Head(q).frequency)
            IN /\ freq_hist' = LastN(all, Min(Capacity, Len(all)))
               /\ IsMedianOf(shown_freq', freq_hist')]_vars

\* The history is full of frequencies of the neighbouring note while the
\* shown note is still the one of an accepted frequency that was dropped.
C20_Witness ==
    /\ Len(freq_hist) = Capacity /\ shown_note # None
    /\ \A i \in 1..Len(freq_hist) : LiveLabel(freq_hist[i]) # shown_note

\* C21: with hysteresis <= 50 every accepted frame leaves shown_note equal
\* to the candidate note of the current median: the shown note is never
\* kept against the candidate.
C21_NoKeepBelowHalfStep ==
    [][(AcceptStep /\ hysteresis <= 50) => shown_note' = LiveLabel(shown_freq')]_vars

\* With hysteresis 50, A4 + 45 cents then A4 + 55 cents in a window of 3:
\* the median is exactly 50 cents above A4, the candidate is A#4 and it is
\* shown.
C21_Witness ==
    /\ hysteresis = 50 /\ median = 3 /\ display = "pitch"
    /\ freq_hist = <<Hz(45), Hz(55)>>
    /\ shown_freq = Hz(50)
    /\ shown_note = LiveLabel(Hz(100))

====
